---- MODULE Spec2Model ----
(***************************************************************************)
(* Model of data/setup/setup_dynamo.py: the DynamoDB value codec           *)
(* (_from_ddb_attr, normalize_record, to_ddb_item), the batch writer       *)
(* (batch_write_items) and the import part of main.                        *)
(*                                                                         *)
(* Python values are records [ty, v]:                                      *)
(*   None   [ty |-> "NoneType", v |-> 0]                                   *)
(*   bool   [ty |-> "bool",  v |-> TRUE / FALSE]                           *)
(*   int    [ty |-> "int",   v |-> n]                                      *)
(*   float  [ty |-> "float", v |-> <<n, k>>]   the double nearest n/10^k,  *)
(*                                             n not divisible by 10 if k>0*)
(*   str    [ty |-> "str",   v |-> sequence of one-character strings]      *)
(*   list   [ty |-> "list",  v |-> sequence of values]                     *)
(*   dict   [ty |-> "dict",  v |-> function from keys (strings) to values] *)
(* A raised exception is the value Raised.                                 *)
(***************************************************************************)
EXTENDS Integers, Sequences, FiniteSets, TLC

PyNone == [ty |-> "NoneType", v |-> 0]
PyBool(b) == [ty |-> "bool", v |-> b]
PyInt(n) == [ty |-> "int", v |-> n]
PyFloat(n, k) == [ty |-> "float", v |-> <<n, k>>]
PyStr(s) == [ty |-> "str", v |-> s]
PyList(xs) == [ty |-> "list", v |-> xs]
PyDict(f) == [ty |-> "dict", v |-> f]
EmptyDict == PyDict([k \in {} |-> PyNone])
Raised == [ty |-> "raise", v |-> 0]

IsRaised(x) == x.ty = "raise"

\* ---------------------------------------------------------------------
\* Text: str(), str.isdigit(), int(text), float(text)
\* ---------------------------------------------------------------------

DigitChars == <<"0", "1", "2", "3", "4", "5", "6", "7", "8", "9">>

IsDigitChar(c) == \E i \in 1..10 : DigitChars[i] = c

DigitVal(c) == (CHOOSE i \in 1..10 : DigitChars[i] = c) - 1

RECURSIVE Pow10(_)
Pow10(k) == IF k = 0 THEN 1 ELSE 10 * Pow10(k - 1)

Abs(n) == IF n < 0 THEN -n ELSE n

RECURSIVE NatToStr(_)
NatToStr(n) ==
  IF n < 10 THEN <<DigitChars[n + 1]>>
  ELSE NatToStr(n \div 10) \o <<DigitChars[(n % 10) + 1]>>

\* str(n) for an int n
IntToStr(n) == IF n < 0 THEN <<"-">> \o NatToStr(-n) ELSE NatToStr(n)

RECURSIVE PadLeft(_, _)
PadLeft(s, k) == IF Len(s) >= k THEN s ELSE PadLeft(<<"0">> \o s, k)

\* str(x) for the float n/10^k (positional repr, the shortest text that
\* reads back as the same double)
FloatToStr(n, k) ==
  LET sign == IF n < 0 THEN <<"-">> ELSE <<>>
      ip   == Abs(n) \div Pow10(k)
      fp   == Abs(n) % Pow10(k)
  IN  sign \o NatToStr(ip) \o <<".">>
        \o (IF k = 0 THEN <<"0">> ELSE PadLeft(NatToStr(fp), k))

\* str.isdigit(): non-empty and every character a digit
IsDigit(s) == Len(s) > 0 /\ \A i \in 1..Len(s) : IsDigitChar(s[i])

RECURSIVE DigitsToNat(_)
DigitsToNat(s) ==
  IF Len(s) = 0 THEN 0
  ELSE 10 * DigitsToNat(SubSeq(s, 1, Len(s) - 1)) + DigitVal(s[Len(s)])

Tail1(s) == SubSeq(s, 2, Len(s))

StartsWithMinus(s) == Len(s) > 0 /\ s[1] = "-"

\* int(text) for a text that passed the guard of line 82
ParseInt(s) ==
  IF StartsWithMinus(s) THEN PyInt(0 - DigitsToNat(Tail1(s)))
  ELSE PyInt(DigitsToNat(s))

RECURSIVE NormFloat(_, _)
NormFloat(n, k) ==
  IF k > 0 /\ n % 10 = 0 THEN NormFloat(n \div 10, k - 1) ELSE PyFloat(n, k)

AllDigits(s) == \A i \in 1..Len(s) : IsDigitChar(s[i])

DotAt(s) == CHOOSE i \in 1..Len(s) : s[i] = "."

\* float(text): [sign] digits [. digits] or [sign] . digits ; anything else
\* raises ValueError
ParseFloat(s) ==
  LET body == IF StartsWithMinus(s) THEN Tail1(s) ELSE s
      neg  == StartsWithMinus(s)
      hasDot == \E i \in 1..Len(body) : body[i] = "."
      ip   == IF hasDot THEN SubSeq(body, 1, DotAt(body) - 1) ELSE body
      fp   == IF hasDot THEN SubSeq(body, DotAt(body) + 1, Len(body)) ELSE <<>>
      mag  == DigitsToNat(ip \o fp)
  IN  IF AllDigits(ip) /\ AllDigits(fp) /\ Len(ip) + Len(fp) > 0
      THEN NormFloat(IF neg THEN 0 - mag ELSE mag, Len(fp))
      ELSE Raised

\* float(v) for any Python value v (line 84)
ToFloat(x) ==
  CASE x.ty = "str"   -> ParseFloat(x.v)
    [] x.ty = "int"   -> PyFloat(x.v, 0)
    [] x.ty = "bool"  -> PyFloat(IF x.v THEN 1 ELSE 0, 0)
    [] x.ty = "float" -> x
    [] OTHER          -> Raised

\* bool(v) (line 88): truthiness
Truthy(x) ==
  CASE x.ty = "NoneType" -> FALSE
    [] x.ty = "bool"  -> x.v
    [] x.ty = "int"   -> x.v # 0
    [] x.ty = "float" -> x.v[1] # 0
    [] x.ty = "str"   -> Len(x.v) > 0
    [] x.ty = "list"  -> Len(x.v) > 0
    [] x.ty = "dict"  -> DOMAIN x.v # {}
    [] OTHER          -> TRUE

\* str(v) of a value (lines 120, 211); containers are not rendered here
ToStr(x) ==
  CASE x.ty = "str"      -> x.v
    [] x.ty = "int"      -> IntToStr(x.v)
    [] x.ty = "float"    -> FloatToStr(x.v[1], x.v[2])
    [] x.ty = "bool"     -> IF x.v THEN <<"T", "r", "u", "e">>
                            ELSE <<"F", "a", "l", "s", "e">>
    [] x.ty = "NoneType" -> <<"N", "o", "n", "e">>
    [] OTHER             -> <<"<", x.ty, ">">>

\* ---------------------------------------------------------------------
\* _from_ddb_attr, normalize_record, to_ddb_item
\* ---------------------------------------------------------------------

WireTags == {"S", "N", "BOOL", "L", "M", "NULL"}

IsSingleKeyDict(x) == x.ty = "dict" /\ Cardinality(DOMAIN x.v) = 1

OnlyKey(x) == CHOOSE k \in DOMAIN x.v : TRUE

\* a list / dict comprehension raises when one of its elements does
ListOrRaise(xs) ==
  IF \E i \in 1..Len(xs) : IsRaised(xs[i]) THEN Raised ELSE PyList(xs)

DictOrRaise(f) ==
  IF \E k \in DOMAIN f : IsRaised(f[k]) THEN Raised ELSE PyDict(f)

\* mutant: every number is read as a float
DecodeNAlwaysFloat(v) == IF IsRaised(ToFloat(v)) THEN v ELSE ToFloat(v)

\* mutant: no try/except around the conversion
DecodeNUnguarded(v) ==
  IF v.ty = "str" /\ (IsDigit(v.v) \/ (StartsWithMinus(v.v) /\ IsDigit(Tail1(v.v))))
  THEN ParseInt(v.v)
  ELSE ToFloat(v)

\* lines 78-86
DecodeN(v) ==
  IF v.ty = "str" /\ (IsDigit(v.v) \/ (StartsWithMinus(v.v) /\ IsDigit(Tail1(v.v))))
  THEN ParseInt(v.v)
  ELSE IF IsRaised(ToFloat(v)) THEN v ELSE ToFloat(v)

RECURSIVE KeySeq(_)
KeySeq(ks) ==
  IF ks = {} THEN <<>>
  ELSE LET k == CHOOSE x \in ks : TRUE IN <<PyStr(<<k>>)>> \o KeySeq(ks \ {k})

\* iterating v in the comprehension of line 92: a list yields its elements,
\* a str its characters, a dict its keys (keys here are single characters)
IterItems(v) ==
  CASE v.ty = "list" -> v.v
    [] v.ty = "str"  -> [i \in 1..Len(v.v) |-> PyStr(<<v.v[i]>>)]
    [] v.ty = "dict" -> KeySeq(DOMAIN v.v)
    [] OTHER         -> <<>>

IsIterable(v) == v.ty \in {"list", "str", "dict"}

RECURSIVE from_ddb_attr(_)
from_ddb_attr(attr) ==
  IF ~IsSingleKeyDict(attr) THEN attr
  ELSE LET t == OnlyKey(attr)
           v == attr.v[t]
       IN  CASE t = "S"    -> v
             [] t = "N"    -> DecodeN(v)
             [] t = "BOOL" -> PyBool(Truthy(v))
             [] t = "NULL" -> PyNone
             [] t = "L"    ->
                  IF IsIterable(v)
                  THEN ListOrRaise([i \in 1..Len(IterItems(v)) |->
                                      from_ddb_attr(IterItems(v)[i])])
                  ELSE Raised
             [] t = "M"    ->
                  IF v.ty = "dict"
                  THEN DictOrRaise([k \in DOMAIN v.v |-> from_ddb_attr(v.v[k])])
                  ELSE Raised
             [] OTHER      -> v

LooksTagged(v) == IsSingleKeyDict(v) /\ OnlyKey(v) \in WireTags

normalize_record(obj) ==
  IF obj.ty # "dict" THEN Raised
  ELSE IF \E k \in DOMAIN obj.v : LooksTagged(obj.v[k])
  THEN DictOrRaise([k \in DOMAIN obj.v |-> from_ddb_attr(obj.v[k])])
  ELSE obj

RECURSIVE conv(_)
conv(v) ==
  CASE v.ty = "NoneType" -> PyDict("NULL" :> PyBool(TRUE))
    [] v.ty = "bool"     -> PyDict("BOOL" :> v)
    [] v.ty \in {"int", "float"} -> PyDict("N" :> PyStr(ToStr(v)))
    [] v.ty = "str"      -> PyDict("S" :> v)
    [] v.ty = "list"     -> PyDict("L" :> PyList([i \in 1..Len(v.v) |-> conv(v.v[i])]))
    [] v.ty = "dict"     -> PyDict("M" :> PyDict([k \in DOMAIN v.v |-> conv(v.v[k])]))
    [] OTHER             -> PyDict("S" :> PyStr(ToStr(v)))

to_ddb_item(d) == PyDict([k \in DOMAIN d.v |-> conv(d.v[k])])

\* ---------------------------------------------------------------------
\* State
\* ---------------------------------------------------------------------

VARIABLES
  \* batch_write_items
  pc,             \* position in batch_write_items
  records,        \* the records argument
  batch_size,     \* the batch_size argument
  max_retries,    \* the max_retries argument
  chunks,         \* line 134
  ci,             \* the index i of the chunk being written (line 135)
  request_items,  \* the requests of the next batch_write_item call
  backoff,        \* in tenths of a second
  attempt,        \* the loop variable of line 143
  log,            \* what the function has done to the outside, in order
  ret,            \* what the function returned
  \* value codec
  cpc, obj, item, out,
  \* main, lines 199-216
  mpc, data, mrecords, handed

wvars == <<pc, records, batch_size, max_retries, chunks, ci, request_items,
           backoff, attempt, log, ret>>
cvars == <<cpc, obj, item, out>>
mvars == <<mpc, data, mrecords, handed>>
vars == <<wvars, cvars, mvars>>

\* bounds of the model
MaxRecords == 3
MaxBatch == 3
MaxRetries == 4
\* bounds of the runs with many retries
MaxDeepRecords == 2
MaxDeepRetries == 6
MaxData == 3

\* program constants, backoff in tenths of a second
BackoffStart == 2
BackoffCap == 50
BackoffFactor == 2

Min(a, b) == IF a < b THEN a ELSE b

\* ---------------------------------------------------------------------
\* batch_write_items
\* ---------------------------------------------------------------------

\* the i-th record of a run: distinct primary keys
SampleRecord(i) ==
  PyDict(("summarize_job_name" :> PyStr(<<"j">> \o NatToStr(i)))
         @@ ("n" :> PyInt(i)))

SampleRecords(n) == [i \in 1..n |-> SampleRecord(i)]

\* records[a : b]
Slice(s, a, b) == SubSeq(s, a + 1, Min(b, Len(s)))

\* [records[i : i + batch_size] for i in range(0, len(records), batch_size)]
RECURSIVE ChunksFrom(_, _, _)
ChunksFrom(recs, size, i) ==
  IF i >= Len(recs) THEN <<>>
  ELSE <<Slice(recs, i, i + size)>> \o ChunksFrom(recs, size, i + size)

\* mutant: only the full chunks, the shorter last one is lost
MakeChunksDropTail(recs, size) ==
  [k \in 1..(Len(recs) \div size) |-> SubSeq(recs, (k - 1) * size + 1, k * size)]

MakeChunks(recs, size) == ChunksFrom(recs, size, 0)

PutRequest(rec) == [PutRequest |-> [Item |-> to_ddb_item(rec)]]

\* request_items of lines 136-141, for the one table
MakeRequestItems(chunk) == [j \in 1..Len(chunk) |-> PutRequest(chunk[j])]

\* mutant: the delay is not capped
NextBackoffUncapped(b) == b * BackoffFactor

\* the next delay, line 151
NextBackoff(b) == Min(b * BackoffFactor, BackoffCap)

\* mutant: the whole batch is submitted again
NextRequestItemsAll(current, unprocessed) == current

\* the requests of the next attempt, line 152
NextRequestItems(current, unprocessed) == unprocessed

\* mutant: one attempt too many
LoopContinuesOffByOne(done, retries) == done <= retries

\* whether the loop of line 143 runs once more after `done` attempts
LoopContinues(done, retries) == done < retries

\* what the backend may answer: any sub-sequence of what was submitted
RECURSIVE SubSeqsOf(_)
SubSeqsOf(s) ==
  IF Len(s) = 0 THEN {<<>>}
  ELSE LET rest == SubSeqsOf(Tail(s))
       IN  rest \cup {<<Head(s)>> \o r : r \in rest}

Event(ev, items, n) == [ev |-> ev, chunk |-> ci, items |-> items, n |-> n]

NotReturned == [ty |-> "unset", v |-> 0]

\* a call of batch_write_items: up to maxN records, batch_size up to maxC,
\* max_retries from 1 to maxR
InitWriter(maxN, maxC, maxR) ==
  /\ pc = "start"
  /\ \E n \in 0..maxN : records = SampleRecords(n)
  /\ batch_size \in 1..maxC
  /\ max_retries \in 1..maxR
  /\ chunks = <<>>
  /\ ci = 0
  /\ request_items = <<>>
  /\ backoff = 0
  /\ attempt = 0
  /\ log = <<>>
  /\ ret = NotReturned

WriterOff ==
  /\ pc = "off"
  /\ records = <<>>
  /\ batch_size = 0
  /\ max_retries = 0
  /\ chunks = <<>>
  /\ ci = 0
  /\ request_items = <<>>
  /\ backoff = 0
  /\ attempt = 0
  /\ log = <<>>
  /\ ret = NotReturned

\* line 134
MakeChunksStep ==
  /\ pc = "start"
  /\ chunks' = MakeChunks(records, batch_size)
  /\ pc' = "for_chunk"
  /\ UNCHANGED <<records, batch_size, max_retries, ci, request_items, backoff,
                 attempt, log, ret>>
  /\ UNCHANGED <<cvars, mvars>>

\* lines 135-143: the next chunk, its requests, backoff = 0.2
BeginChunk ==
  /\ pc = "for_chunk"
  /\ ci < Len(chunks)
  /\ ci' = ci + 1
  /\ request_items' = MakeRequestItems(chunks[ci + 1])
  /\ backoff' = BackoffStart
  /\ attempt' = 0
  /\ pc' = IF LoopContinues(0, max_retries) THEN "for_attempt" ELSE "info"
  /\ UNCHANGED <<records, batch_size, max_retries, chunks, log, ret>>
  /\ UNCHANGED <<cvars, mvars>>

\* lines 144-148: the call answers with nothing unprocessed
AttemptDone ==
  /\ pc = "for_attempt"
  /\ log' = log \o << Event("call", request_items, attempt + 1),
                      Event("resp", <<>>, 0) >>
  /\ pc' = "info"
  /\ UNCHANGED <<records, batch_size, max_retries, chunks, ci, request_items,
                 backoff, attempt, ret>>
  /\ UNCHANGED <<cvars, mvars>>

\* mutant: running out of attempts with items left raises
AttemptRetryRaiseWhenExhausted ==
  /\ pc = "for_attempt"
  /\ \E unprocessed \in SubSeqsOf(request_items) \ {<<>>} :
       /\ log' = log \o << Event("call", request_items, attempt + 1),
                           Event("resp", unprocessed, Len(unprocessed)),
                           Event("warn", <<>>, Len(unprocessed)),
                           Event("sleep", <<>>, backoff) >>
       /\ request_items' = NextRequestItems(request_items, unprocessed)
  /\ backoff' = NextBackoff(backoff)
  /\ attempt' = attempt + 1
  /\ pc' = IF LoopContinues(attempt + 1, max_retries) THEN "for_attempt" ELSE "raised"
  /\ UNCHANGED <<records, batch_size, max_retries, chunks, ci, ret>>
  /\ UNCHANGED <<cvars, mvars>>

\* lines 144-152: the call answers with unprocessed items
AttemptRetry ==
  /\ pc = "for_attempt"
  /\ \E unprocessed \in SubSeqsOf(request_items) \ {<<>>} :
       /\ log' = log \o << Event("call", request_items, attempt + 1),
                           Event("resp", unprocessed, Len(unprocessed)),
                           Event("warn", <<>>, Len(unprocessed)),
                           Event("sleep", <<>>, backoff) >>
       /\ request_items' = NextRequestItems(request_items, unprocessed)
  /\ backoff' = NextBackoff(backoff)
  /\ attempt' = attempt + 1
  /\ pc' = IF LoopContinues(attempt + 1, max_retries) THEN "for_attempt" ELSE "info"
  /\ UNCHANGED <<records, batch_size, max_retries, chunks, ci, ret>>
  /\ UNCHANGED <<cvars, mvars>>

\* mutant: the error of the call is swallowed and the chunk counts as written
AttemptRaiseSwallowed ==
  /\ pc = "for_attempt"
  /\ log' = log \o << Event("call", request_items, attempt + 1),
                      Event("raise", <<>>, 0) >>
  /\ pc' = "info"
  /\ UNCHANGED <<records, batch_size, max_retries, chunks, ci, request_items,
                 backoff, attempt, ret>>
  /\ UNCHANGED <<cvars, mvars>>

\* line 144: the call raises (a ClientError, a transport error); nothing in
\* batch_write_items catches it
AttemptRaise ==
  /\ pc = "for_attempt"
  /\ log' = log \o << Event("call", request_items, attempt + 1),
                      Event("raise", <<>>, 0) >>
  /\ pc' = "raised"
  /\ UNCHANGED <<records, batch_size, max_retries, chunks, ci, request_items,
                 backoff, attempt, ret>>
  /\ UNCHANGED <<cvars, mvars>>

\* line 153
WroteBatch ==
  /\ pc = "info"
  /\ log' = Append(log, Event("info", <<>>, Len(chunks[ci])))
  /\ pc' = "for_chunk"
  /\ UNCHANGED <<records, batch_size, max_retries, chunks, ci, request_items,
                 backoff, attempt, ret>>
  /\ UNCHANGED <<cvars, mvars>>

\* the loop of line 135 is over: the function returns None
Return ==
  /\ pc = "for_chunk"
  /\ ci = Len(chunks)
  /\ pc' = "returned"
  /\ ret' = PyNone
  /\ UNCHANGED <<records, batch_size, max_retries, chunks, ci, request_items,
                 backoff, attempt, log>>
  /\ UNCHANGED <<cvars, mvars>>

NextWriter ==
  \/ MakeChunksStep
  \/ BeginChunk
  \/ AttemptDone
  \/ AttemptRetry
  \/ AttemptRaise
  \/ WroteBatch
  \/ Return

CodecOff == cpc = "off" /\ obj = PyNone /\ item = PyNone /\ out = PyNone

MainOff == mpc = "off" /\ data = <<>> /\ mrecords = <<>> /\ handed = <<>>

Init == InitWriter(MaxRecords, MaxBatch, MaxRetries) /\ CodecOff /\ MainOff

Next == NextWriter

Spec == Init /\ [][Next]_vars

\* few records, many retries: the runs in which the backoff reaches its cap
DeepInit == InitWriter(MaxDeepRecords, MaxBatch, MaxDeepRetries) /\ CodecOff /\ MainOff

SpecDeep == DeepInit /\ [][Next]_vars

\* ---------------------------------------------------------------------
\* The codec on single records: to_ddb_item then normalize_record, and
\* normalize_record on a record as loaded from JSON
\* ---------------------------------------------------------------------

Atoms ==
  { PyNone, PyBool(TRUE), PyBool(FALSE),
    PyInt(-7), PyInt(0), PyInt(12),
    PyFloat(35, 1), PyFloat(-5, 2), PyFloat(2, 0),
    PyStr(<<"x">>), PyStr(<<>>), PyStr(<<"1", "a">>), PyStr(<<"-", "7">>),
    PyStr(<<"4", "2">>) }

FewAtoms == {PyBool(TRUE), PyInt(12), PyStr(<<"x">>)}

NestKeys == {"k", "S", "NULL"}

AllTags == WireTags \cup {"X", "B"}

\* the values one level deeper than those of S: lists and mappings over S
Nest(S) ==
  S \cup {PyList(<<>>), EmptyDict}
    \cup {PyList(<<a>>) : a \in S}
    \cup {PyList(<<a, b>>) : a \in FewAtoms, b \in FewAtoms}
    \cup {PyDict(k :> a) : k \in NestKeys, a \in S}
    \cup {PyDict(("k" :> a) @@ ("S" :> b)) : a \in FewAtoms, b \in FewAtoms}

PlainValues == Nest(Nest(Atoms))

\* single-key wrappers as a JSON file may hold them, well formed or not
Wrap(S, tags) == {PyDict(t :> p) : t \in tags, p \in S}

Payloads == Atoms \cup {PyList(<<>>), EmptyDict, PyList(<<PyInt(12)>>),
                        PyDict("k" :> PyInt(12))}

Wire1 == Wrap(Payloads, AllTags)

Wire2 ==
  Wire1 \cup Wrap({PyList(<<w>>) : w \in Wire1} \cup {PyDict("k" :> w) : w \in Wire1},
                  {"L", "M", "X"})

RecordsOver(S) ==
  {EmptyDict}
    \cup {PyDict("a" :> x) : x \in S}
    \cup {PyDict("S" :> x) : x \in FewAtoms}
    \cup {PyDict(("a" :> x) @@ ("b" :> y)) : x \in S, y \in FewAtoms}

WireRecords ==
  {PyDict("a" :> w) : w \in Wire2}
    \cup {PyDict(("a" :> w) @@ ("b" :> y)) :
            w \in Wire2, y \in {PyDict("S" :> PyStr(<<"x">>)), PyInt(12)}}

InitCodec ==
  /\ cpc = "start"
  /\ obj \in RecordsOver(PlainValues) \cup WireRecords
  /\ item = PyNone
  /\ out = PyNone

\* to_ddb_item(obj)
ToDdbItem ==
  /\ cpc = "start"
  /\ item' = to_ddb_item(obj)
  /\ cpc' = "encoded"
  /\ UNCHANGED <<obj, out>>
  /\ UNCHANGED <<wvars, mvars>>

\* normalize_record(to_ddb_item(obj))
NormalizeEncoded ==
  /\ cpc = "encoded"
  /\ out' = normalize_record(item)
  /\ cpc' = "decoded"
  /\ UNCHANGED <<obj, item>>
  /\ UNCHANGED <<wvars, mvars>>

\* normalize_record(obj), obj as loaded
NormalizeInput ==
  /\ cpc = "start"
  /\ out' = normalize_record(obj)
  /\ cpc' = "normalized"
  /\ UNCHANGED <<obj, item>>
  /\ UNCHANGED <<wvars, mvars>>

NextCodec ==
  \/ ToDdbItem
  \/ NormalizeEncoded
  \/ NormalizeInput

CodecInit == InitCodec /\ WriterOff /\ MainOff

SpecCodec == CodecInit /\ [][NextCodec]_vars

\* ---------------------------------------------------------------------
\* main, lines 199-216: normalize, keep the records with the primary key,
\* make patient_id a str, hand over to batch_write_items
\* ---------------------------------------------------------------------

Text(s) == PyStr(s)

InputRecords ==
  { PyDict(("summarize_job_name" :> Text(<<"j", "1">>)) @@ ("patient_id" :> PyInt(42))),
    PyDict("summarize_job_name" :> Text(<<"j", "2">>)),
    PyDict("patient_id" :> Text(<<"p", "1">>)),
    PyDict(("summarize_job_name" :> PyDict("S" :> Text(<<"j", "3">>)))
           @@ ("patient_id" :> PyDict("N" :> Text(<<"4", "2">>)))
           @@ ("note" :> PyDict("S" :> Text(<<"x">>)))),
    PyDict("patient_id" :> PyDict("S" :> Text(<<"p", "1">>))),
    PyDict(("summarize_job_name" :> Text(<<"j", "4">>))
           @@ ("patient_id" :> Text(<<"p", "4">>)) @@ ("age" :> PyInt(7))),
    PyDict(("summarize_job_name" :> PyDict("S" :> Text(<<"j", "5">>)))
           @@ ("patient_id" :> PyDict("NULL" :> PyBool(TRUE)))),
    PyDict(("summarize_job_name" :> PyDict("S" :> Text(<<"j", "6">>)))
           @@ ("tags" :> PyDict("L" :> PyInt(5)))),
    PyDict(("summarize_job_name" :> Text(<<"j", "7">>))
           @@ ("patient_id" :> PyFloat(35, 1))) }

RECURSIVE SeqsUpTo(_, _)
SeqsUpTo(S, n) ==
  IF n = 0 THEN {<<>>}
  ELSE LET shorter == SeqsUpTo(S, n - 1)
       IN  shorter \cup {Append(q, x) : q \in shorter, x \in S}

InitMain ==
  /\ mpc = "normalize"
  /\ data \in SeqsUpTo(InputRecords, MaxData)
  /\ mrecords = <<>>
  /\ handed = <<>>

\* line 203
HasPrimaryKey(r) == "summarize_job_name" \in DOMAIN r.v

\* mutant: patient_id is left as it is
CoercePatientIdSkipped(r) == r

\* lines 210-211
CoercePatientId(r) ==
  IF "patient_id" \in DOMAIN r.v /\ r.v["patient_id"].ty # "str"
  THEN PyDict([r.v EXCEPT !["patient_id"] = PyStr(ToStr(@))])
  ELSE r

\* line 199; an exception of normalize_record leaves main
NormalizeAll ==
  /\ mpc = "normalize"
  /\ LET rs == [i \in 1..Len(data) |-> normalize_record(data[i])]
     IN  IF \E i \in 1..Len(rs) : IsRaised(rs[i])
         THEN mpc' = "raised" /\ mrecords' = mrecords
         ELSE mpc' = "filter" /\ mrecords' = rs
  /\ UNCHANGED <<data, handed>>
  /\ UNCHANGED <<wvars, cvars>>

\* lines 202-206
FilterPrimaryKey ==
  /\ mpc = "filter"
  /\ mrecords' = SelectSeq(mrecords, HasPrimaryKey)
  /\ mpc' = "coerce"
  /\ UNCHANGED <<data, handed>>
  /\ UNCHANGED <<wvars, cvars>>

\* lines 209-211
CoerceAll ==
  /\ mpc = "coerce"
  /\ mrecords' = [i \in 1..Len(mrecords) |-> CoercePatientId(mrecords[i])]
  /\ mpc' = "dispatch"
  /\ UNCHANGED <<data, handed>>
  /\ UNCHANGED <<wvars, cvars>>

\* lines 213-214
WarnNoRecords ==
  /\ mpc = "dispatch"
  /\ mrecords = <<>>
  /\ mpc' = "no_records"
  /\ UNCHANGED <<data, mrecords, handed>>
  /\ UNCHANGED <<wvars, cvars>>

\* lines 215-216
CallBatchWrite ==
  /\ mpc = "dispatch"
  /\ mrecords # <<>>
  /\ handed' = mrecords
  /\ mpc' = "writing"
  /\ UNCHANGED <<data, mrecords>>
  /\ UNCHANGED <<wvars, cvars>>

NextMain ==
  \/ NormalizeAll
  \/ FilterPrimaryKey
  \/ CoerceAll
  \/ WarnNoRecords
  \/ CallBatchWrite

MainInit == InitMain /\ WriterOff /\ CodecOff

SpecMain == MainInit /\ [][NextMain]_vars

\* ---------------------------------------------------------------------
\* Properties of the codec
\* ---------------------------------------------------------------------

RECURSIVE HasDigitOnlyStr(_)
HasDigitOnlyStr(x) ==
  CASE x.ty = "str"  -> IsDigit(x.v)
    [] x.ty = "list" -> \E i \in 1..Len(x.v) : HasDigitOnlyStr(x.v[i])
    [] x.ty = "dict" -> \E k \in DOMAIN x.v : HasDigitOnlyStr(x.v[k])
    [] OTHER         -> FALSE

RoundTripAnyString == cpc = "decoded" => out = obj

Payload(a) == a.v[OnlyKey(a)]

HasTag(a, t) == IsSingleKeyDict(a) /\ OnlyKey(a) = t

UnknownTag(a) == IsSingleKeyDict(a) /\ OnlyKey(a) \notin WireTags

NotASequence(a) == HasTag(a, "L") /\ Payload(a).ty # "list"

NotIterable(a) ==
  HasTag(a, "L") /\ Payload(a).ty \in {"NoneType", "bool", "int", "float"}

NotAMapping(a) == HasTag(a, "M") /\ Payload(a).ty # "dict"

NumberChars == {DigitChars[i] : i \in 1..10} \cup {"-", "."}

\* an N tag whose payload is no number and no text of a number
NotANumber(a) ==
  /\ HasTag(a, "N")
  /\ \/ Payload(a).ty \in {"NoneType", "list", "dict"}
     \/ /\ Payload(a).ty = "str"
        /\ \/ Len(Payload(a).v) = 0
           \/ \E i \in 1..Len(Payload(a).v) : Payload(a).v[i] \notin NumberChars

Unwrapped == cpc = "normalized" /\ \E k \in DOMAIN obj.v : LooksTagged(obj.v[k])

Normalized(i) == normalize_record(data[i])

Kept == {i \in 1..Len(data) : "summarize_job_name" \in DOMAIN Normalized(i).v}

\* the j-th input record that has the primary key
KeptAt(j) == CHOOSE i \in Kept : Cardinality({m \in Kept : m <= i}) = j

\* C9: batch_write_items gets exactly the normalized input records that
\* have summarize_job_name, in their order; patient_id, where present, is a
\* str (the text of the value it was), nothing else is changed; with no
\* such record batch_write_items is not called.
PreWriteFilter ==
  /\ mpc # "writing" => handed = <<>>
  /\ mpc = "no_records" => Kept = {}
  /\ mpc = "writing" =>
       /\ Len(handed) = Cardinality(Kept)
       /\ Len(handed) >= 1
       /\ \A j \in 1..Len(handed) :
            LET src == Normalized(KeptAt(j)).v
                got == handed[j].v
            IN  /\ DOMAIN got = DOMAIN src
                /\ \A k \in DOMAIN src : k # "patient_id" => got[k] = src[k]
                /\ "patient_id" \in DOMAIN src =>
                     /\ got["patient_id"].ty = "str"
                     /\ src["patient_id"].ty = "str" => got["patient_id"] = src["patient_id"]
                     /\ src["patient_id"].ty # "str" =>
                          got["patient_id"].v = ToStr(src["patient_id"])
                     /\ src["patient_id"] = PyInt(42) =>
                          got["patient_id"] = PyStr(<<"4", "2">>)

PreWriteFilterWitness ==
  /\ mpc = "writing"
  /\ Len(handed) = 2
  /\ Len(data) = 3
  /\ \E j \in 1..2 : /\ "patient_id" \in DOMAIN handed[j].v
                     /\ handed[j].v["patient_id"] = PyStr(<<"4", "2">>)
                     /\ Normalized(KeptAt(j)).v["patient_id"] = PyInt(42)

\* ---------------------------------------------------------------------
\* Properties of batch_write_items
\* ---------------------------------------------------------------------

EventsOf(ev, c) == {i \in DOMAIN log : log[i].ev = ev /\ log[i].chunk = c}

NumCalls(c) == Cardinality(EventsOf("call", c))

Finished(c) == EventsOf("info", c) # {}

FailedIn(c) == EventsOf("raise", c) # {}

\* every answer for chunk c gave back all that was submitted
AllUnprocessed(c) ==
  \A i \in EventsOf("resp", c) : log[i].items = log[i - 1].items

ItemSet(s) == {s[j] : j \in DOMAIN s}

LastOf(ev, c) == CHOOSE i \in EventsOf(ev, c) : \A j \in EventsOf(ev, c) : j <= i

RaisedOnlyByCall == pc = "raised" => (Len(log) > 0 /\ log[Len(log)].ev = "raise")

\* C1: a chunk is never submitted more than max_retries times, and at least
\* once when it is over; with a backend that gives every item back every
\* time, exactly max_retries times, after which the function goes on and
\* returns; it raises only when a call raises, and never stops midway.
RetryTermination ==
  /\ \A c \in 1..Len(chunks) :
       /\ NumCalls(c) <= max_retries
       /\ (Finished(c) \/ FailedIn(c)) => NumCalls(c) >= 1
       /\ (Finished(c) /\ AllUnprocessed(c)) => NumCalls(c) = max_retries
       /\ (c = ci /\ AllUnprocessed(c) /\ NumCalls(c) = max_retries /\ ~FailedIn(c))
            => pc \in {"info", "for_chunk", "returned"}
  /\ RaisedOnlyByCall
  /\ pc = "returned" => \A c \in 1..Len(chunks) : Finished(c)
  /\ pc \notin {"returned", "raised"} => ENABLED NextWriter

RetryTerminationWitness ==
  /\ pc = "returned"
  /\ max_retries >= 2
  /\ Len(chunks) >= 2
  /\ \A c \in 1..Len(chunks) : AllUnprocessed(c) /\ NumCalls(c) = max_retries

CeilDiv(n, c) == (n + c - 1) \div c

RECURSIVE Concat(_)
Concat(ss) == IF Len(ss) = 0 THEN <<>> ELSE Head(ss) \o Concat(Tail(ss))

\* C2: once the chunks are formed there are ceil(N / C) of them, each of 1
\* to C records and all but the last of exactly C, and put end to end they
\* are the record list: every record is in exactly one chunk.
Chunking ==
  pc # "start" =>
    /\ Len(chunks) = CeilDiv(Len(records), batch_size)
    /\ \A k \in 1..Len(chunks) :
         /\ Len(chunks[k]) >= 1
         /\ Len(chunks[k]) <= batch_size
         /\ k < Len(chunks) => Len(chunks[k]) = batch_size
    /\ Concat(chunks) = records
    /\ \A r \in 1..Len(records) :
         Cardinality({<<k, j>> \in (1..Len(chunks)) \X (1..batch_size) :
                        j <= Len(chunks[k]) /\ chunks[k][j] = records[r]}) = 1

ChunkingWitness ==
  /\ pc # "start"
  /\ Len(chunks) >= 2
  /\ Len(chunks[Len(chunks)]) < batch_size

IsCall(i) == log[i].ev = "call"

FirstCall(i) ==
  IsCall(i) /\ ~\E j \in 1..(i - 1) : IsCall(j) /\ log[j].chunk = log[i].chunk

\* the last answer before log index i
PrevResp(i) ==
  LET before == {j \in 1..(i - 1) : log[j].ev = "resp"}
  IN  CHOOSE j \in before : \A k \in before : k <= j

EncodedChunk(c) ==
  [j \in 1..Len(chunks[c]) |-> [PutRequest |-> [Item |-> to_ddb_item(chunks[c][j])]]]

\* the items of call i that its answer did not give back
Accepted(i) ==
  IF i < Len(log) /\ log[i + 1].ev = "resp"
  THEN ItemSet(log[i].items) \ ItemSet(log[i + 1].items)
  ELSE {}

\* C3: the first call of a chunk carries the encoded records of the chunk,
\* every later call exactly what the call before gave back as unprocessed;
\* so a retry carries only requests of its own chunk, none of another
\* chunk, and never an item that an earlier call accepted.
ResubmitUnprocessedOnly ==
  LET encoded == [c \in 1..Len(chunks) |-> EncodedChunk(c)]
      calls   == {i \in DOMAIN log : IsCall(i)}
  IN  \A i \in calls :
        LET c == log[i].chunk
            sent == ItemSet(log[i].items)
            accepted == Accepted(i)
        IN  /\ FirstCall(i) => log[i].items = encoded[c]
            /\ ~FirstCall(i) =>
                 /\ log[PrevResp(i)].chunk = c
                 /\ log[PrevResp(i)].ev = "resp"
                 /\ log[i].items = log[PrevResp(i)].items
            /\ sent \subseteq ItemSet(encoded[c])
            /\ \A c2 \in 1..Len(chunks) :
                 c2 # c => sent \cap ItemSet(encoded[c2]) = {}
            /\ \A k \in calls :
                 k > i => accepted \cap ItemSet(log[k].items) = {}

ResubmitUnprocessedOnlyWitness ==
  \E i \in DOMAIN log :
    /\ IsCall(i)
    /\ ~FirstCall(i)
    /\ Len(log[i].items) >= 1
    /\ Len(log[i].items) < Len(chunks[log[i].chunk])
    /\ Accepted(i - 4) # {}
    /\ \E k \in (i + 1)..Len(log) : IsCall(k) /\ log[k].chunk # log[i].chunk

RECURSIVE Pow2(_)
Pow2(k) == IF k = 0 THEN 1 ELSE 2 * Pow2(k - 1)

\* the number of the sleep at log index i among the sleeps of its chunk
SleepNo(i) ==
  Cardinality({j \in EventsOf("sleep", log[i].chunk) : j <= i})

\* C4: the k-th sleep of a chunk lasts min(0.2 * 2^(k-1), 5) (here in
\* tenths), whatever earlier chunks did; the sleeps of a chunk never get
\* shorter and none is longer than 5.
BackoffSchedule ==
  \A i \in DOMAIN log : log[i].ev = "sleep" =>
    /\ log[i].n = Min(2 * Pow2(SleepNo(i) - 1), 50)
    /\ log[i].n <= 50
    /\ \A j \in EventsOf("sleep", log[i].chunk) : j < i => log[j].n <= log[i].n

BackoffScheduleWitness ==
  /\ \E i \in EventsOf("sleep", 1) : SleepNo(i) = 6 /\ log[i].n = 50
  /\ \E i \in EventsOf("sleep", 2) : SleepNo(i) = 1 /\ log[i].n = 2

\* C5: a call that raises is the last thing batch_write_items does: no
\* call, sleep, warning or progress line follows it, the chunk gets no
\* progress line, the function does not return, and the failure is with
\* the caller.
TransportErrorFatal ==
  /\ \A i \in DOMAIN log : log[i].ev = "raise" =>
       /\ i = Len(log)
       /\ IsCall(i - 1)
       /\ pc = "raised"
       /\ ~Finished(log[i].chunk)
       /\ ret = NotReturned
  /\ RaisedOnlyByCall
  /\ pc = "raised" => ~ENABLED NextWriter

TransportErrorFatalWitness ==
  /\ pc = "raised"
  /\ ci < Len(chunks)
  /\ attempt >= 1
  /\ EventsOf("sleep", ci) # {}

\* chunk c is over at log index i: answered with nothing unprocessed, or
\* submitted max_retries times
OverBefore(c, i) ==
  LET calls == {j \in EventsOf("call", c) : j < i}
      resps == {j \in EventsOf("resp", c) : j < i}
  IN  /\ resps # {}
      /\ \/ Cardinality(calls) = max_retries
         \/ \E j \in resps : log[j].n = 0 /\ \A k \in resps : k <= j

Exhausted(c) ==
  /\ EventsOf("resp", c) # {}
  /\ log[LastOf("resp", c)].n > 0
  /\ Cardinality(EventsOf("resp", c)) = max_retries

\* C6: chunks are written one after the other: chunk k+1 is first submitted
\* only when chunk k is over (nothing unprocessed, or max_retries attempts);
\* a chunk that runs out of attempts with items left does not stop the run:
\* it gets the same progress line, the later chunks are submitted in order,
\* and the function returns None.
SequentialChunks ==
  /\ \A i \in 1..(Len(log) - 1) : log[i].chunk <= log[i + 1].chunk
  /\ \A i \in DOMAIN log : (IsCall(i) /\ log[i].chunk >= 2) =>
       /\ OverBefore(log[i].chunk - 1, i)
       /\ \E j \in EventsOf("info", log[i].chunk - 1) : j < i
  /\ \A c \in 1..Len(chunks) :
       /\ Cardinality(EventsOf("info", c)) <= 1
       /\ \A i \in EventsOf("info", c) :
            /\ log[i].n = Len(chunks[c])
            /\ log[i].items = <<>>
            /\ OverBefore(c, i)
       /\ (Exhausted(c) /\ c = ci) => pc \in {"info", "for_chunk", "returned"}
  /\ RaisedOnlyByCall
  /\ pc = "returned" =>
       /\ ret = PyNone
       /\ \A c \in 1..Len(chunks) : NumCalls(c) >= 1 /\ Finished(c)

SequentialChunksWitness ==
  /\ pc = "returned"
  /\ Len(chunks) >= 2
  /\ Exhausted(1)
  /\ NumCalls(2) >= 1

\* C10: every finished chunk has one progress line, after its last attempt,
\* and as many warnings and sleeps as resubmissions; every warning reports
\* a count above zero, and every warning and sleep is followed by another
\* call for the same chunk.
WarningsMatchRetries ==
  \A c \in 1..Len(chunks) :
    /\ \A i \in EventsOf("warn", c) : log[i].n > 0
    /\ Finished(c) =>
         /\ Cardinality(EventsOf("info", c)) = 1
         /\ LastOf("info", c) > LastOf("call", c)
         /\ Cardinality(EventsOf("warn", c)) = NumCalls(c) - 1
         /\ Cardinality(EventsOf("sleep", c)) = NumCalls(c) - 1
         /\ \A i \in EventsOf("warn", c) \cup EventsOf("sleep", c) :
              \E k \in EventsOf("call", c) : k > i

====
